---- MODULE Spec2Model ----
(***************************************************************************)
(* A model of hacky-fabric's versioned world-state replica:                *)
(*   - storage.VersionedDB   (src/storage/db.go): the multi-version table  *)
(*     worldstate_<channel> and the channel_progress row;                  *)
(*   - storage.SimulationStore (src/storage/sim.go): a simulation session  *)
(*     that records reads and pending writes over a snapshot of the table; *)
(*   - committer.Committer (src/committer/committer.go): the pipeline that *)
(*     parses the blocks a peer delivers and inserts their valid writes.   *)
(* The SQL statements are modelled by what they do to the rows.            *)
(***************************************************************************)
EXTENDS Integers, Sequences, FiniteSets, TLC

VARIABLES
    table,      \* rows of worldstate_<channel>: a set of WriteRecords
    progress,   \* last_block of the channel_progress rows of this channel
                \* (PRIMARY KEY channel: no row, or one)
    sess,       \* the SimulationStore in use (none before construction)
    last,       \* what the last call was and what it returned
    sess2,      \* a second SimulationStore on the same store
    chain,      \* the blocks of the peer's ledger: chain[n] is block n
    run,        \* where Committer.Run is, the subscription it holds, its
                \* backoff, whether its context is cancelled, what it returned
    tx,         \* the transaction of the BatchInsert in progress, if any
    wait        \* where Committer.WaitUntilSynced is, and what it returned

vars == <<table, progress, sess, last, sess2, chain, run, tx, wait>>

\* The state of the ingestion pipeline
pipeline == <<chain, run, tx, wait>>

----------------------------------------------------------------------------
(* Bounds of the model *)

MaxBlock == 2      \* block numbers of stored writes are 1..MaxBlock
MaxRows  == 2      \* the table holds at most MaxRows rows
MaxBatch == 2      \* a batch holds at most MaxBatch records
MaxFails == 6      \* consecutive failures are counted up to MaxFails

InitialBackoff == 1    \* backoff := time.Second
MaxBackoff     == 30   \* 30*time.Second, the cap of Run's backoff
GiveUpBackoff  == 30   \* 30*time.Second, where WaitUntilSynced gives up

Namespaces == {"ns1", "ns2"}
Keys       == {"k1", "k2"}
Values     == {"v1", "v2"}    \* values a session puts
StoredValues == {"v1"}        \* values of stored writes
TxNums     == {0, 1}
Blocks     == 1..MaxBlock
Ceilings   == 0..MaxBlock

NIL == "nil"       \* a nil []byte, a nil error

\* A pointer that may be nil (*WriteRecord, *Version) is a sequence of at
\* most one element.
Nil       == <<>>
Ptr(x)    == <<x>>
Deref(p)  == p[1]

----------------------------------------------------------------------------
(* storage.WriteRecord and the table's primary key *)

WriteRecord(ns, key, b, t, val, del) ==
    [Namespace |-> ns, Key |-> key, BlockNum |-> b, TxNum |-> t,
     Value |-> val, IsDelete |-> del, TxID |-> "tx"]

\* The records committed write sets yield for the (namespace, key) pairs
\* `at`: a put carries a value, a delete carries none.
RecordsAt(at) ==
    { WriteRecord(p[1], p[2], b, t, v, FALSE) :
          p \in at, b \in Blocks, t \in TxNums, v \in StoredValues }
    \cup
    { WriteRecord(p[1], p[2], b, t, NIL, TRUE) :
          p \in at, b \in Blocks, t \in TxNums }

\* Stored writes: of one key for the updates, of two keys in two namespaces
\* for the queries (which are asked for every namespace and key).
StoreRecords == RecordsAt({<<"ns1", "k1">>})
QueryRecords == RecordsAt({<<"ns1", "k1">>, <<"ns2", "k2">>})

\* PRIMARY KEY (namespace, key, version_block, version_tx)
PrimaryKey(w) == <<w.Namespace, w.Key, w.BlockNum, w.TxNum>>

PrimaryKeys(tbl) == { PrimaryKey(r) : r \in tbl }

\* (version_block, version_tx) of a sorts before that of b
VersionLess(a, b) ==
    \/ a.BlockNum < b.BlockNum
    \/ a.BlockNum = b.BlockNum /\ a.TxNum < b.TxNum

----------------------------------------------------------------------------
(* The statements of VersionedDB *)

\* A plain INSERT: a duplicate primary key is an error.
InsertOrFail(tbl, w) ==
    IF PrimaryKey(w) \in PrimaryKeys(tbl)
    THEN [table |-> tbl, err |-> TRUE]
    ELSE [table |-> tbl \cup {w}, err |-> FALSE]

\* INSERT OR REPLACE: the new row takes the place of the stored one
InsertOrReplace(tbl, w) ==
    [table |-> { r \in tbl : PrimaryKey(r) # PrimaryKey(w) } \cup {w},
     err |-> FALSE]

\* INSERT ... ON CONFLICT (namespace, key, version_block, version_tx) DO NOTHING
\* (INSERT OR IGNORE): the statement succeeds whether or not the row is new.
InsertOrIgnore(tbl, w) ==
    IF PrimaryKey(w) \in PrimaryKeys(tbl)
    THEN [table |-> tbl, err |-> FALSE]
    ELSE [table |-> tbl \cup {w}, err |-> FALSE]

\* The upsert without its WHERE clause
UpsertAlways(prog, blockNum) == {blockNum}

\* ON CONFLICT(channel) DO NOTHING
UpsertIfAbsent(prog, blockNum) == IF prog = {} THEN {blockNum} ELSE prog

\* INSERT INTO channel_progress ... ON CONFLICT(channel) DO UPDATE
\* SET last_block = excluded.last_block
\* WHERE excluded.last_block > channel_progress.last_block
UpsertProgress(prog, blockNum) ==
    IF prog = {} THEN {blockNum}
    ELSE IF \E cur \in prog : blockNum > cur THEN {blockNum}
    ELSE prog

\* SELECT last_block FROM channel_progress WHERE channel = $1;
\* sql.ErrNoRows yields 0.
LastBlockOf(prog) == IF prog = {} THEN 0 ELSE CHOOSE b \in prog : TRUE

----------------------------------------------------------------------------
(* Queries of VersionedDB *)

\* WHERE namespace = $1 AND key = $2
RowsOf(tbl, ns, key) == { r \in tbl : r.Namespace = ns /\ r.Key = key }

\* The WHERE clause without its condition on version_block
RowsOfAnyBlock(tbl, ns, key, lastBlock) == RowsOf(tbl, ns, key)

\* WHERE namespace = $1 AND key = $2 AND version_block <= $3
RowsUpTo(tbl, ns, key, lastBlock) ==
    { r \in RowsOf(tbl, ns, key) : r.BlockNum <= lastBlock }

RECURSIVE OrderAsc(_)
\* ORDER BY version_block, version_tx
OrderAsc(rows) ==
    IF rows = {} THEN <<>>
    ELSE LET first == CHOOSE x \in rows : \A y \in rows : ~VersionLess(y, x)
         IN  <<first>> \o OrderAsc(rows \ {first})

RECURSIVE OrderDesc(_)
\* ORDER BY version_block DESC, version_tx DESC
OrderDesc(rows) ==
    IF rows = {} THEN <<>>
    ELSE LET first == CHOOSE x \in rows : \A y \in rows : ~VersionLess(x, y)
         IN  <<first>> \o OrderDesc(rows \ {first})

\* LIMIT 1 followed by row.Scan: the first row, sql.ErrNoRows when there is
\* none, another error when the backend fails.
ScanFirst(ordered, fault) ==
    IF fault THEN [err |-> "dberror", row |-> Nil]
    ELSE IF ordered = <<>> THEN [err |-> "ErrNoRows", row |-> Nil]
    ELSE [err |-> NIL, row |-> Ptr(Head(ordered))]

\* The (*WriteRecord, error) a point query returns for a scan result
RecordOrNil(scan) ==
    IF scan.err # NIL
    THEN IF scan.err = "ErrNoRows"
         THEN [rec |-> Nil, err |-> FALSE]
         ELSE [rec |-> Nil, err |-> TRUE]
    ELSE [rec |-> scan.row, err |-> FALSE]

\* Get with the ORDER BY of GetHistory
GetOldest(tbl, ns, key, lastBlock, fault) ==
    RecordOrNil(ScanFirst(OrderAsc(RowsUpTo(tbl, ns, key, lastBlock)), fault))

\* VersionedDB.Get
Get(tbl, ns, key, lastBlock, fault) ==
    RecordOrNil(ScanFirst(OrderDesc(RowsUpTo(tbl, ns, key, lastBlock)), fault))

\* VersionedDB.GetCurrent
GetCurrent(tbl, ns, key, fault) ==
    RecordOrNil(ScanFirst(OrderDesc(RowsOf(tbl, ns, key)), fault))

\* GetHistory with the ORDER BY of Get
GetHistoryNewestFirst(tbl, ns, key, fault) ==
    IF fault THEN [recs |-> <<>>, err |-> TRUE]
    ELSE [recs |-> OrderDesc(RowsOf(tbl, ns, key)), err |-> FALSE]

\* VersionedDB.GetHistory
GetHistory(tbl, ns, key, fault) ==
    IF fault THEN [recs |-> <<>>, err |-> TRUE]
    ELSE [recs |-> OrderAsc(RowsOf(tbl, ns, key)), err |-> FALSE]

\* VersionedDB.LastProcessedBlock
LastProcessedBlock(prog, fault) ==
    IF fault THEN [block |-> 0, err |-> TRUE]
    ELSE [block |-> LastBlockOf(prog), err |-> FALSE]

----------------------------------------------------------------------------
(* Updates of VersionedDB *)

\* MarkProcessed that reports success and writes nothing
MarkProcessedNoOp(prog, blockNum, fault) == [progress |-> prog, err |-> FALSE]

\* VersionedDB.MarkProcessed, on the backend or inside a transaction
MarkProcessed(prog, blockNum, fault) ==
    IF fault THEN [progress |-> prog, err |-> TRUE]
    ELSE [progress |-> UpsertProgress(prog, blockNum), err |-> FALSE]

RECURSIVE ExecRows(_, _, _)
\* for _, w := range writes { stmt.Exec(...) }, over the first n records
ExecRows(tbl, writes, n) ==
    IF n = 0 THEN [table |-> tbl, err |-> FALSE]
    ELSE LET prev == ExecRows(tbl, writes, n - 1)
         IN  IF prev.err THEN prev ELSE InsertOrIgnore(prev.table, writes[n])

\* The steps of BatchInsert at which the backend may fail
FaultsOf(writes) ==
    {<<"none", 0>>, <<"begin", 0>>, <<"prepare", 0>>, <<"progress", 0>>,
     <<"commit", 0>>}
    \cup { <<"exec", i>> : i \in 1..Len(writes) }

NoFault == <<"none", 0>>

\* No rollback: the statements executed so far stay applied
KeepPartial(committed, working) == working

\* defer tx.Rollback(): what the transaction did is discarded
Rollback(committed, working) == committed

\* VersionedDB.BatchInsert: the store after the call, and whether it failed
BatchInsert(tbl, prog, writes, fault) ==
    LET committed == [table |-> tbl, progress |-> prog]
        failed(st) == [table |-> st.table, progress |-> st.progress, err |-> TRUE]
    IN
    IF Len(writes) = 0 THEN [table |-> tbl, progress |-> prog, err |-> FALSE]
    ELSE IF fault[1] = "begin" THEN failed(committed)
    ELSE IF fault[1] = "prepare" THEN failed(Rollback(committed, committed))
    ELSE
      LET n    == IF fault[1] = "exec" THEN fault[2] - 1 ELSE Len(writes)
          rows == ExecRows(tbl, writes, n)
          afterRows == [table |-> rows.table, progress |-> prog]
      IN
      IF fault[1] = "exec" \/ rows.err THEN failed(Rollback(committed, afterRows))
      ELSE
        LET mark == MarkProcessed(prog, writes[1].BlockNum, fault[1] = "progress")
            afterMark == [table |-> rows.table, progress |-> mark.progress]
        IN
        IF mark.err THEN failed(Rollback(committed, afterMark))
        ELSE IF fault[1] = "commit" THEN failed(Rollback(committed, afterMark))
        ELSE [table |-> afterMark.table, progress |-> afterMark.progress,
              err |-> FALSE]

----------------------------------------------------------------------------
(* storage.SimulationStore *)

\* A Go map is a function on the keys it holds
EmptyMap == [k \in {} |-> k]
Has(m, k) == k \in DOMAIN m
MapPut(m, k, v) == [x \in DOMAIN m \cup {k} |-> IF x = k THEN v ELSE m[x]]

KVRead(key, version) == [Key |-> key, Version |-> version]
KVWrite(key, isDelete, value) == [Key |-> key, IsDelete |-> isDelete, Value |-> value]
Version(blockNum, txNum) == [BlockNum |-> blockNum, TxNum |-> txNum]

\* len(x) == 0 of a key or a value: nil or empty
IsEmpty(x) == x \in {NIL, ""}

\* NewSimulationStore that resolves blockNum 0 to the block height, the
\* block after the last processed one
NewSimulationStoreAtHeight(prog, namespace, blockNum, readOwnWrites, fault) ==
    LET lpb == LastProcessedBlock(prog, fault)
        version == IF blockNum = 0 THEN lpb.block + 1 ELSE blockNum
    IN  IF blockNum = 0 /\ lpb.err
        THEN [store |-> Nil, err |-> TRUE]
        ELSE [store |-> Ptr([namespace     |-> namespace,
                             blockNum      |-> version,
                             reads         |-> EmptyMap,
                             writes        |-> EmptyMap,
                             readOwnWrites |-> readOwnWrites]),
              err |-> FALSE]

\* NewSimulationStore that binds every session to the last processed block
NewSimulationStoreAtLatest(prog, namespace, blockNum, readOwnWrites, fault) ==
    LET lpb == LastProcessedBlock(prog, fault)
    IN  IF lpb.err
        THEN [store |-> Nil, err |-> TRUE]
        ELSE [store |-> Ptr([namespace     |-> namespace,
                             blockNum      |-> lpb.block,
                             reads         |-> EmptyMap,
                             writes        |-> EmptyMap,
                             readOwnWrites |-> readOwnWrites]),
              err |-> FALSE]

\* VersionedDB.NewSimulationStore(namespace, blockNum, readOwnWrites)
NewSimulationStore(prog, namespace, blockNum, readOwnWrites, fault) ==
    LET lpb == LastProcessedBlock(prog, fault)
        version == IF blockNum = 0 THEN lpb.block ELSE blockNum
    IN  IF blockNum = 0 /\ lpb.err
        THEN [store |-> Nil, err |-> TRUE]
        ELSE [store |-> Ptr([namespace     |-> namespace,
                             blockNum      |-> version,
                             reads         |-> EmptyMap,
                             writes        |-> EmptyMap,
                             readOwnWrites |-> readOwnWrites]),
              err |-> FALSE]

\* The KVRead GetState records for what the store returned
ReadOf(key, rec) ==
    KVRead(key, IF rec = Nil THEN Nil
                ELSE Ptr(Version(Deref(rec).BlockNum, Deref(rec).TxNum)))

\* The store read that records nothing for a key the store does not hold
GetStateSkippingAbsent(s, tbl, key, fault) ==
    LET got == Get(tbl, s.namespace, key, s.blockNum, fault)
    IN  IF got.err
        THEN [val |-> NIL, err |-> TRUE, reads |-> s.reads,
              queried |-> TRUE, rec |-> Nil]
        ELSE IF got.rec = Nil \/ Deref(got.rec).IsDelete
        THEN [val |-> NIL, err |-> FALSE, reads |-> s.reads,
              queried |-> TRUE, rec |-> got.rec]
        ELSE [val |-> NIL, err |-> FALSE,
              reads |-> MapPut(s.reads, key, ReadOf(key, got.rec)),
              queried |-> TRUE, rec |-> got.rec]

\* The store read that records a read of a deleted key
GetStateRecordingDeleted(s, tbl, key, fault) ==
    LET got == Get(tbl, s.namespace, key, s.blockNum, fault)
    IN  IF got.err
        THEN [val |-> NIL, err |-> TRUE, reads |-> s.reads,
              queried |-> TRUE, rec |-> Nil]
        ELSE [val |-> NIL, err |-> FALSE,
              reads |-> MapPut(s.reads, key, ReadOf(key, got.rec)),
              queried |-> TRUE, rec |-> got.rec]

\* GetState that records a read without version when the lookup fails
GetStateRecordingOnError(s, tbl, key, fault) ==
    LET got == Get(tbl, s.namespace, key, s.blockNum, fault)
    IN  IF got.err
        THEN [val |-> NIL, err |-> TRUE,
              reads |-> MapPut(s.reads, key, ReadOf(key, Nil)),
              queried |-> TRUE, rec |-> Nil]
        ELSE IF got.rec # Nil /\ Deref(got.rec).IsDelete
        THEN [val |-> NIL, err |-> FALSE, reads |-> s.reads,
              queried |-> TRUE, rec |-> got.rec]
        ELSE [val |-> NIL, err |-> FALSE,
              reads |-> MapPut(s.reads, key, ReadOf(key, got.rec)),
              queried |-> TRUE, rec |-> got.rec]

\* The part of GetState that reads the store snapshot (sim.go:57-77).  The
\* local `val` is declared and returned, and nothing assigns it.
GetStateFromStore(s, tbl, key, fault) ==
    LET got == Get(tbl, s.namespace, key, s.blockNum, fault)
        val == NIL
    IN  IF got.err
        THEN [val |-> NIL, err |-> TRUE, reads |-> s.reads,
              queried |-> TRUE, rec |-> Nil]
        ELSE IF got.rec # Nil /\ Deref(got.rec).IsDelete
        THEN [val |-> NIL, err |-> FALSE, reads |-> s.reads,
              queried |-> TRUE, rec |-> got.rec]
        ELSE [val |-> val, err |-> FALSE,
              reads |-> MapPut(s.reads, key, ReadOf(key, got.rec)),
              queried |-> TRUE, rec |-> got.rec]

\* The part of GetState that answers from the session's own writes
GetStateFromWrites(s, key) ==
    [val |-> IF s.writes[key].IsDelete THEN NIL ELSE s.writes[key].Value,
     err |-> FALSE, reads |-> s.reads, queried |-> FALSE, rec |-> Nil]

\* GetState that never looks at the session's writes
GetStateNeverOwnWrites(s, tbl, key, fault) ==
    GetStateFromStore(s, tbl, key, fault)

\* GetState that looks at the session's writes whatever readOwnWrites is
GetStateAlwaysOwnWrites(s, tbl, key, fault) ==
    IF Has(s.writes, key)
    THEN GetStateFromWrites(s, key)
    ELSE GetStateFromStore(s, tbl, key, fault)

\* SimulationStore.GetState(key): the value and error returned, the reads
\* map after the call, whether the store was queried and what it returned
GetState(s, tbl, key, fault) ==
    IF s.readOwnWrites /\ Has(s.writes, key)
    THEN GetStateFromWrites(s, key)
    ELSE GetStateFromStore(s, tbl, key, fault)

\* PutState that keeps the entry a key already has
PutStateKeepingFirst(s, key, value) ==
    IF IsEmpty(key) THEN [writes |-> s.writes, err |-> TRUE]
    ELSE IF IsEmpty(value) THEN [writes |-> s.writes, err |-> TRUE]
    ELSE IF Has(s.writes, key) THEN [writes |-> s.writes, err |-> FALSE]
    ELSE [writes |-> MapPut(s.writes, key, KVWrite(key, FALSE, value)),
          err |-> FALSE]

\* PutState without the check of the value
PutStateAnyValue(s, key, value) ==
    IF IsEmpty(key) THEN [writes |-> s.writes, err |-> TRUE]
    ELSE [writes |-> MapPut(s.writes, key, KVWrite(key, FALSE, value)),
          err |-> FALSE]

\* SimulationStore.PutState(key, value)
PutState(s, key, value) ==
    IF IsEmpty(key) THEN [writes |-> s.writes, err |-> TRUE]
    ELSE IF IsEmpty(value) THEN [writes |-> s.writes, err |-> TRUE]
    ELSE [writes |-> MapPut(s.writes, key, KVWrite(key, FALSE, value)),
          err |-> FALSE]

\* DelState with the check of the key that PutState has
DelStateCheckingKey(s, key) ==
    IF IsEmpty(key) THEN [writes |-> s.writes, err |-> TRUE]
    ELSE [writes |-> MapPut(s.writes, key, KVWrite(key, TRUE, NIL)),
          err |-> FALSE]

\* SimulationStore.DelState(key)
DelState(s, key) ==
    [writes |-> MapPut(s.writes, key, KVWrite(key, TRUE, NIL)), err |-> FALSE]

\* The orders in which `for _, x := range m` may visit the keys of a map
RangeOrders(m) ==
    { o \in [1..Cardinality(DOMAIN m) -> DOMAIN m] :
        \A i, j \in DOMAIN o : i # j => o[i] # o[j] }

\* The slice the loop appends to, for one order of the keys
AppendAll(m, order) == [i \in DOMAIN order |-> m[order[i]]]

\* Result that leaves one write out
ResultDroppingWrite(s, readOrder, writeOrder) ==
    [Reads  |-> AppendAll(s.reads, readOrder),
     Writes |-> IF writeOrder = <<>> THEN <<>>
                ELSE Tail(AppendAll(s.writes, writeOrder))]

\* SimulationStore.Result(): the ReadWriteSet, for the orders in which the
\* two maps are ranged over
Result(s, readOrder, writeOrder) ==
    [Reads  |-> AppendAll(s.reads, readOrder),
     Writes |-> AppendAll(s.writes, writeOrder)]

\* SimulationStore.Version()
SnapshotVersion(s) == s.blockNum

----------------------------------------------------------------------------
(* Calls on the store.  Each call leaves in `last` its name, the arguments *)
(* the properties refer to, and what it returned.  A batch insert leaves   *)
(* the primary keys and the block numbers of its batch when it succeeded.  *)

\* The records batches are built from: conflicting writes of one primary
\* key, and a write of another block.
BatchRecords ==
    { r \in StoreRecords :
        \/ r.BlockNum = 1 /\ r.TxNum = 0
        \/ r.BlockNum = MaxBlock /\ r.TxNum = 1 /\ r.IsDelete }

SeqsUpTo(S, n) == UNION { [1..m -> S] : m \in 0..n }

Batches == SeqsUpTo(BatchRecords, MaxBatch)

BlocksOf(writes) == { writes[i].BlockNum : i \in 1..Len(writes) }
KeysOf(writes)   == { PrimaryKey(writes[i]) : i \in 1..Len(writes) }

\* committer.NewCommitter: Run has not been called, the context is live.
\* The backoff is in seconds.
\* `fails` counts the calls of SubscribeBlocks that returned an error since
\* the last one that returned nil.
NewCommitter ==
    [pc |-> "init", start |-> 0, next |-> 0, backoff |-> 0,
     cancelled |-> FALSE, ret |-> "none", fails |-> 0]

\* WaitUntilSynced has not been called
NotWaiting == [pc |-> "idle", backoff |-> 0, expired |-> FALSE, ret |-> "none"]

InitStore ==
    /\ table = {}
    /\ progress = {}
    /\ sess = Nil
    /\ last = [op |-> "init"]
    /\ sess2 = Nil
    /\ chain = <<>>
    /\ run = NewCommitter
    /\ tx = Nil
    /\ wait = NotWaiting

\* VersionedDB.InsertWrite(w); `last` keeps whether w carried the primary
\* key of a stored row with another payload
CallInsertWrite(w, fault) ==
    /\ Cardinality(table \cup {w}) <= MaxRows
    /\ table' = IF fault THEN table ELSE InsertOrIgnore(table, w).table
    /\ last' = [op |-> "InsertWrite", err |-> fault,
                dup |-> PrimaryKey(w) \in PrimaryKeys(table) /\ w \notin table]
    /\ UNCHANGED <<progress, sess, sess2, chain, run, tx, wait>>

\* VersionedDB.BatchInsert(writes)
CallBatchInsert(writes, fault) ==
    LET res == BatchInsert(table, progress, writes, fault)
    IN  /\ Cardinality(table \cup { writes[i] : i \in 1..Len(writes) }) <= MaxRows
        /\ table' = res.table
        /\ progress' = res.progress
        /\ last' = [op |-> "BatchInsert", err |-> res.err, n |-> Len(writes),
                    keys   |-> IF res.err THEN {} ELSE KeysOf(writes),
                    blocks |-> IF res.err THEN {} ELSE BlocksOf(writes),
                    first  |-> IF res.err \/ Len(writes) = 0 THEN 0
                               ELSE writes[1].BlockNum]
        /\ UNCHANGED <<sess, sess2, chain, run, tx, wait>>

\* VersionedDB.MarkProcessed(nil, blockNum)
CallMarkProcessed(blockNum, fault) ==
    LET res == MarkProcessed(progress, blockNum, fault)
    IN  /\ progress' = res.progress
        /\ last' = [op |-> "MarkProcessed", err |-> res.err, blockNum |-> blockNum]
        /\ UNCHANGED <<table, sess, sess2, chain, run, tx, wait>>

\* VersionedDB.LastProcessedBlock()
CallLastProcessedBlock(fault) ==
    LET res == LastProcessedBlock(progress, fault)
    IN  /\ last' = [op |-> "LastProcessedBlock", err |-> res.err, block |-> res.block]
        /\ UNCHANGED <<table, progress, sess, sess2, chain, run, tx, wait>>

\* VersionedDB.Get(namespace, key, lastBlock)
CallGet(ns, key, lastBlock, fault) ==
    LET res == Get(table, ns, key, lastBlock, fault)
    IN  /\ last' = [op |-> "Get", fault |-> fault, ns |-> ns, key |-> key,
                    lastBlock |-> lastBlock, rec |-> res.rec, err |-> res.err]
        /\ UNCHANGED <<table, progress, sess, sess2, chain, run, tx, wait>>

\* VersionedDB.GetCurrent(namespace, key)
CallGetCurrent(ns, key, fault) ==
    LET res == GetCurrent(table, ns, key, fault)
    IN  /\ last' = [op |-> "GetCurrent", fault |-> fault, ns |-> ns, key |-> key,
                    rec |-> res.rec, err |-> res.err]
        /\ UNCHANGED <<table, progress, sess, sess2, chain, run, tx, wait>>

\* VersionedDB.GetHistory(namespace, key)
CallGetHistory(ns, key, fault) ==
    LET res == GetHistory(table, ns, key, fault)
    IN  /\ last' = [op |-> "GetHistory", fault |-> fault, ns |-> ns, key |-> key,
                    recs |-> res.recs, err |-> res.err]
        /\ UNCHANGED <<table, progress, sess, sess2, chain, run, tx, wait>>

\* The updates of the store, with the progress query
NextStore ==
    \/ \E w \in StoreRecords, fault \in BOOLEAN : CallInsertWrite(w, fault)
    \/ \E writes \in Batches : \E fault \in FaultsOf(writes) :
           CallBatchInsert(writes, fault)
    \/ \E b \in Ceilings, fault \in BOOLEAN : CallMarkProcessed(b, fault)
    \/ \E fault \in BOOLEAN : CallLastProcessedBlock(fault)

SpecStore == InitStore /\ [][NextStore]_vars

\* The queries of the store, over every table single inserts build
NextQuery ==
    \/ \E w \in QueryRecords : CallInsertWrite(w, FALSE)
    \/ \E ns \in Namespaces, key \in Keys, c \in Ceilings, fault \in BOOLEAN :
           CallGet(ns, key, c, fault)
    \/ \E ns \in Namespaces, key \in Keys, fault \in BOOLEAN :
           CallGetCurrent(ns, key, fault)
    \/ \E ns \in Namespaces, key \in Keys, fault \in BOOLEAN :
           CallGetHistory(ns, key, fault)

SpecQuery == InitStore /\ [][NextQuery]_vars

----------------------------------------------------------------------------
(* Calls on a simulation session over a store that single-record batches   *)
(* have filled.                                                            *)

SimRecords == { r \in StoreRecords : r.TxNum = 0 }

SessionKeys == {"k1", "k2"}       \* keys a session reads
WriteKeys   == {"k1", ""}         \* keys a session puts and deletes
PutValues   == Values \cup {NIL, ""}  \* values a session puts

\* VersionedDB.NewSimulationStore(namespace, blockNum, readOwnWrites)
CallNewSimulationStore(ns, blockNum, readOwnWrites, fault) ==
    LET res == NewSimulationStore(progress, ns, blockNum, readOwnWrites, fault)
    IN  /\ sess = Nil
        /\ sess' = res.store
        /\ last' = [op |-> "NewSimulationStore", err |-> res.err,
                    blockNum |-> blockNum]
        /\ UNCHANGED <<table, progress, sess2, chain, run, tx, wait>>

\* SimulationStore.GetState(key); `last` keeps the reads map of before
CallGetState(key, fault) ==
    /\ sess # Nil
    /\ LET res == GetState(Deref(sess), table, key, fault)
       IN  /\ sess' = Ptr([Deref(sess) EXCEPT !.reads = res.reads])
           /\ last' = [op |-> "GetState", key |-> key, fault |-> fault,
                       val |-> res.val, err |-> res.err,
                       queried |-> res.queried, rec |-> res.rec,
                       reads |-> Deref(sess).reads]
    /\ UNCHANGED <<table, progress, sess2, chain, run, tx, wait>>

\* The entry a map holds for a key, if any
EntryOf(m, k) == IF Has(m, k) THEN Ptr(m[k]) ELSE Nil

\* SimulationStore.PutState(key, value); `last` keeps the entry the key had
CallPutState(key, value) ==
    /\ sess # Nil
    /\ LET res == PutState(Deref(sess), key, value)
       IN  /\ sess' = Ptr([Deref(sess) EXCEPT !.writes = res.writes])
           /\ last' = [op |-> "PutState", key |-> key, value |-> value,
                       err |-> res.err, prev |-> EntryOf(Deref(sess).writes, key)]
    /\ UNCHANGED <<table, progress, sess2, chain, run, tx, wait>>

\* SimulationStore.DelState(key)
CallDelState(key) ==
    /\ sess # Nil
    /\ LET res == DelState(Deref(sess), key)
       IN  /\ sess' = Ptr([Deref(sess) EXCEPT !.writes = res.writes])
           /\ last' = [op |-> "DelState", key |-> key, err |-> res.err,
                       prev |-> EntryOf(Deref(sess).writes, key)]
    /\ UNCHANGED <<table, progress, sess2, chain, run, tx, wait>>

\* SimulationStore.Result()
CallResult(readOrder, writeOrder) ==
    /\ sess # Nil
    /\ last' = [op |-> "Result",
                rws |-> Result(Deref(sess), readOrder, writeOrder)]
    /\ UNCHANGED <<table, progress, sess, sess2, chain, run, tx, wait>>

NextSim ==
    \/ \E w \in SimRecords : sess = Nil /\ CallBatchInsert(<<w>>, NoFault)
    \/ \E ns \in Namespaces, b \in Ceilings, row \in BOOLEAN, fault \in BOOLEAN :
           CallNewSimulationStore(ns, b, row, fault)
    \/ \E key \in SessionKeys, fault \in BOOLEAN : CallGetState(key, fault)
    \/ \E key \in WriteKeys, value \in PutValues : CallPutState(key, value)
    \/ \E key \in WriteKeys : CallDelState(key)
    \/ /\ sess # Nil
       /\ \E ro \in RangeOrders(Deref(sess).reads),
             wo \in RangeOrders(Deref(sess).writes) : CallResult(ro, wo)

SpecSim == InitStore /\ [][NextSim]_vars

----------------------------------------------------------------------------
(* Two simulation sessions of one store, used in any interleaving.  The    *)
(* calls on the second session leave `on |-> 2` in `last`.                 *)

\* db.NewSimulationStore(...) for the second session
OtherNewSimulationStore(ns, blockNum, readOwnWrites, fault) ==
    LET res == NewSimulationStore(progress, ns, blockNum, readOwnWrites, fault)
    IN  /\ sess2 = Nil
        /\ sess2' = res.store
        /\ last' = [op |-> "NewSimulationStore", on |-> 2, err |-> res.err]
        /\ UNCHANGED <<table, progress, sess, chain, run, tx, wait>>

\* GetState(key) on the second session
OtherGetState(key, fault) ==
    /\ sess2 # Nil
    /\ LET res == GetState(Deref(sess2), table, key, fault)
       IN  /\ sess2' = Ptr([Deref(sess2) EXCEPT !.reads = res.reads])
           /\ last' = [op |-> "GetState", on |-> 2, key |-> key,
                       val |-> res.val, err |-> res.err]
    /\ UNCHANGED <<table, progress, sess, chain, run, tx, wait>>

\* PutState on sessions that were handed one writes map: the write of the
\* second session lands in the first one as well
OtherPutStateShared(key, value) ==
    /\ sess # Nil /\ sess2 # Nil
    /\ LET res == PutState(Deref(sess2), key, value)
       IN  /\ sess2' = Ptr([Deref(sess2) EXCEPT !.writes = res.writes])
           /\ sess' = Ptr([Deref(sess) EXCEPT !.writes = res.writes])
           /\ last' = [op |-> "PutState", on |-> 2, key |-> key, err |-> res.err]
    /\ UNCHANGED <<table, progress, chain, run, tx, wait>>

\* PutState(key, value) on the second session
OtherPutState(key, value) ==
    /\ sess2 # Nil
    /\ LET res == PutState(Deref(sess2), key, value)
       IN  /\ sess2' = Ptr([Deref(sess2) EXCEPT !.writes = res.writes])
           /\ last' = [op |-> "PutState", on |-> 2, key |-> key, err |-> res.err]
    /\ UNCHANGED <<table, progress, sess, chain, run, tx, wait>>

\* DelState(key) on the second session
OtherDelState(key) ==
    /\ sess2 # Nil
    /\ LET res == DelState(Deref(sess2), key)
       IN  /\ sess2' = Ptr([Deref(sess2) EXCEPT !.writes = res.writes])
           /\ last' = [op |-> "DelState", on |-> 2, key |-> key, err |-> res.err]
    /\ UNCHANGED <<table, progress, sess, chain, run, tx, wait>>

\* Result() on the second session
OtherResult(readOrder, writeOrder) ==
    /\ sess2 # Nil
    /\ last' = [op |-> "Result", on |-> 2,
                rws |-> Result(Deref(sess2), readOrder, writeOrder)]
    /\ UNCHANGED <<table, progress, sess, sess2, chain, run, tx, wait>>

\* The keys and values the two sessions use
SharedKeys   == {"k1"}
SharedValues == {"v1", "v2"}

NextSessions ==
    \/ \E w \in SimRecords :
           sess = Nil /\ sess2 = Nil /\ CallBatchInsert(<<w>>, NoFault)
    \/ \E row \in BOOLEAN : CallNewSimulationStore("ns1", 0, row, FALSE)
    \/ \E row \in BOOLEAN : OtherNewSimulationStore("ns1", 0, row, FALSE)
    \/ \E key \in SharedKeys : CallGetState(key, FALSE)
    \/ \E key \in SharedKeys : OtherGetState(key, FALSE)
    \/ \E key \in SharedKeys, value \in SharedValues : CallPutState(key, value)
    \/ \E key \in SharedKeys, value \in SharedValues : OtherPutState(key, value)
    \/ \E key \in SharedKeys : CallDelState(key)
    \/ \E key \in SharedKeys : OtherDelState(key)
    \/ /\ sess # Nil
       /\ \E ro \in RangeOrders(Deref(sess).reads),
             wo \in RangeOrders(Deref(sess).writes) : CallResult(ro, wo)
    \/ /\ sess2 # Nil
       /\ \E ro \in RangeOrders(Deref(sess2).reads),
             wo \in RangeOrders(Deref(sess2).writes) : OtherResult(ro, wo)

SpecSessions == InitStore /\ [][NextSessions]_vars

----------------------------------------------------------------------------
(* A simulation session while single-record batches keep being inserted.   *)
(* A session is bound to the last processed block (blockNum 0) or to the   *)
(* explicit block MaxBlock.                                                *)

SnapshotBlocks == {0, MaxBlock}

\* SimulationStore.Version()
CallVersion ==
    /\ sess # Nil
    /\ last' = [op |-> "Version", block |-> SnapshotVersion(Deref(sess))]
    /\ UNCHANGED <<table, progress, sess, sess2, chain, run, tx, wait>>

NextSnapshot ==
    \/ \E w \in SimRecords : CallBatchInsert(<<w>>, NoFault)
    \/ \E ns \in Namespaces, b \in SnapshotBlocks, fault \in BOOLEAN :
           CallNewSimulationStore(ns, b, FALSE, fault)
    \/ \E key \in SessionKeys : CallGetState(key, FALSE)
    \/ CallVersion

SpecSnapshot == InitStore /\ [][NextSnapshot]_vars

----------------------------------------------------------------------------
(* The blocks a peer delivers, and committer.parseBlock                     *)

\* A write of a committed transaction's write set (kvrwset.KVWrite)
RwPut == [Key |-> "k1", Value |-> "v1", IsDelete |-> FALSE]
RwDel == [Key |-> "k1", Value |-> NIL, IsDelete |-> TRUE]

\* An envelope of a block's data: whether proto.Unmarshal and
\* fabrictx.RWSets succeed on it, and the write set they yield
Envelope(decodable, writes) ==
    [decodable |-> decodable, Namespace |-> "ns1", TxID |-> "tx",
     Writes |-> writes]

\* A block: its header number, its envelopes, and the TRANSACTIONS_FILTER of
\* its metadata (nil when the metadata does not hold one)
Block(num, data, filter) == [Number |-> num, Data |-> data, Filter |-> filter]

\* The blocks delivered as block num: without transactions; with valid
\* transactions; with an invalid one; with a transaction the filter has no
\* entry for; without a filter; with an envelope that cannot be decoded.
BlocksNumbered(num) ==
    { Block(num, <<>>, Ptr(<<>>)),
      Block(num, <<Envelope(TRUE, <<RwPut>>)>>, Ptr(<<"VALID">>)),
      Block(num, <<Envelope(TRUE, <<RwPut>>), Envelope(TRUE, <<RwDel>>)>>,
            Ptr(<<"VALID", "VALID">>)),
      Block(num, <<Envelope(TRUE, <<RwPut>>), Envelope(TRUE, <<RwDel>>)>>,
            Ptr(<<"MVCC_READ_CONFLICT", "VALID">>)),
      Block(num, <<Envelope(TRUE, <<RwPut>>), Envelope(TRUE, <<RwDel>>)>>,
            Ptr(<<"VALID">>)),
      Block(num, <<Envelope(TRUE, <<RwPut>>)>>, Nil),
      Block(num, <<Envelope(FALSE, <<>>), Envelope(TRUE, <<RwPut>>)>>,
            Ptr(<<"VALID", "VALID">>)) }

\* The ledgers of MaxBlock blocks, numbered from 1
Chains == { c \in [1..MaxBlock -> UNION { BlocksNumbered(n) : n \in 1..MaxBlock }] :
              \A n \in 1..MaxBlock : c[n].Number = n }

\* records that yields nothing
recordsNone(namespace, blockNum, txNum, txID, writes) == <<>>

\* records(namespace, blockNum, txNum, txID, rws)
records(namespace, blockNum, txNum, txID, writes) ==
    [i \in 1..Len(writes) |->
        WriteRecord(namespace, writes[i].Key, blockNum, txNum,
                    writes[i].Value, writes[i].IsDelete)]

\* A filter that lets every transaction through
AnyCode(code) == TRUE

\* peer.TxValidationCode(txFilter[txNum]) == peer.TxValidationCode_VALID
IsValidCode(code) == code = "VALID"

RECURSIVE ParseTxs(_, _, _)
\* The loop of parseBlock over the first n envelopes of the block: the
\* writes appended so far, or the index-out-of-range panic of the log call
\* that reads txFilter[txNum] for a transaction beyond the filter
ParseTxs(b, txFilter, n) ==
    IF n = 0 THEN [writes |-> <<>>, panic |-> FALSE]
    ELSE LET prev  == ParseTxs(b, txFilter, n - 1)
             txNum == n - 1
             env   == b.Data[n]
         IN  IF prev.panic THEN prev
             ELSE IF txNum >= Len(txFilter)
             THEN [writes |-> prev.writes, panic |-> TRUE]
             ELSE IF ~IsValidCode(txFilter[txNum + 1]) THEN prev
             ELSE IF ~env.decodable THEN prev
             ELSE [writes |-> prev.writes \o
                              records(env.Namespace, b.Number, txNum,
                                      env.TxID, env.Writes),
                   panic |-> FALSE]

\* parseBlock that returns an error for a block with an envelope that
\* cannot be decoded
parseBlockStrict(b) ==
    IF b.Filter = Nil \/ \E n \in 1..Len(b.Data) : ~b.Data[n].decodable
    THEN [writes |-> <<>>, num |-> 0, err |-> TRUE, panic |-> FALSE]
    ELSE LET res == ParseTxs(b, Deref(b.Filter), Len(b.Data))
         IN  [writes |-> res.writes, num |-> b.Number, err |-> FALSE,
              panic |-> res.panic]

\* committer.parseBlock(block, log): (writes, number, error), or a panic
parseBlock(b) ==
    IF b.Filter = Nil
    THEN [writes |-> <<>>, num |-> 0, err |-> TRUE, panic |-> FALSE]
    ELSE LET res == ParseTxs(b, Deref(b.Filter), Len(b.Data))
         IN  [writes |-> res.writes, num |-> b.Number, err |-> FALSE,
              panic |-> res.panic]

\* Committer.processBlock on a store that does not fail: the store after it
processBlock(st, b) ==
    LET parsed == parseBlock(b)
    IN  IF Len(parsed.writes) = 0
        THEN [table |-> st.table,
              progress |-> MarkProcessed(st.progress, parsed.num, FALSE).progress]
        ELSE LET res == BatchInsert(st.table, st.progress, parsed.writes, NoFault)
             IN  [table |-> res.table, progress |-> res.progress]

RECURSIVE DeliverOnce(_, _)
\* The store after the handler of Run has run once on each of the first k
\* blocks of a ledger, in order, starting from an empty store
DeliverOnce(c, k) ==
    IF k = 0 THEN [table |-> {}, progress |-> {}]
    ELSE processBlock(DeliverOnce(c, k - 1), c[k])

----------------------------------------------------------------------------
(* The statements of BatchInsert, one at a time.  Readers of the store see *)
(* `table` and `progress`, the committed rows; the rows a transaction has  *)
(* written are its own until it commits.                                   *)

\* s.backend.Begin() and tx.Prepare(...)
TxBegin(tbl, prog, writes) ==
    [writes |-> writes, n |-> 0, table |-> tbl, progress |-> prog,
     marked |-> FALSE]

\* The insert executed on the backend instead of on the transaction
TxExecOnBackend(committed, txn) ==
    LET w == txn.writes[txn.n + 1]
    IN  [committed |-> InsertOrIgnore(committed, w).table,
         txn |-> [txn EXCEPT !.table = InsertOrIgnore(txn.table, w).table,
                             !.n = txn.n + 1]]

\* stmt.Exec(...) of the next record, on the statement tx prepared
TxExec(committed, txn) ==
    LET w == txn.writes[txn.n + 1]
    IN  [committed |-> committed,
         txn |-> [txn EXCEPT !.table = InsertOrIgnore(txn.table, w).table,
                             !.n = txn.n + 1]]

\* The progress row set to the block of the batch, whatever it holds
TxMarkUnconditional(txn) ==
    [txn EXCEPT !.progress = {txn.writes[1].BlockNum}, !.marked = TRUE]

\* s.MarkProcessed(tx, writes[0].BlockNum)
TxMark(txn) ==
    [txn EXCEPT !.progress = MarkProcessed(txn.progress,
                                           txn.writes[1].BlockNum, FALSE).progress,
                !.marked = TRUE]

\* tx.Commit()
TxCommit(txn) == [table |-> txn.table, progress |-> txn.progress]

----------------------------------------------------------------------------
(* Committer.Run and Committer.processBlock over a ledger, with readers   *)
(* of the store at work between the steps of the pipeline.                 *)

InitPipeline ==
    /\ table = {}
    /\ progress = {}
    /\ sess = Nil
    /\ last = [op |-> "init"]
    /\ sess2 = Nil
    /\ chain \in Chains
    /\ run = NewCommitter
    /\ tx = Nil
    /\ wait = NotWaiting

\* The variables a step of Run leaves alone
others == <<sess, sess2, chain, wait>>

\* Run that subscribes at the last processed block
RunStartAtLast(fault) ==
    /\ run.pc = "init"
    /\ run' = [run EXCEPT !.pc = "loop",
                          !.start = LastProcessedBlock(progress, fault).block,
                          !.backoff = InitialBackoff]
    /\ last' = [op |-> "Run", err |-> fault]
    /\ UNCHANGED <<table, progress, tx, others>>

\* Run, up to its loop: lastBlock, _ := c.db.LastProcessedBlock();
\* start := lastBlock + 1; backoff := time.Second.  `last` keeps whether
\* the query failed.
RunStart(fault) ==
    /\ run.pc = "init"
    /\ run' = [run EXCEPT !.pc = "loop",
                          !.start = LastProcessedBlock(progress, fault).block + 1,
                          !.backoff = InitialBackoff]
    /\ last' = [op |-> "Run", err |-> fault]
    /\ UNCHANGED <<table, progress, tx, others>>

\* Run that returns when a subscription cannot be opened
SubscribeReturningOnError(fault) ==
    /\ run.pc = "loop"
    /\ IF run.cancelled \/ fault
       THEN /\ run' = [run EXCEPT !.pc = "returned", !.ret = NIL]
            /\ last' = [op |-> "return"]
       ELSE /\ run' = [run EXCEPT !.pc = "recv", !.next = run.start]
            /\ last' = [op |-> "SubscribeBlocks", err |-> FALSE]
    /\ UNCHANGED <<table, progress, tx, others>>

\* The top of the loop of Run: return nil when the context is done; else
\* c.peer.SubscribeBlocks(c.channel, start, ...), which opens the stream at
\* start, or fails to open it
Subscribe(fault) ==
    /\ run.pc = "loop"
    /\ IF run.cancelled
       THEN /\ run' = [run EXCEPT !.pc = "returned", !.ret = NIL]
            /\ last' = [op |-> "return"]
       ELSE IF fault
       THEN /\ run' = [run EXCEPT !.pc = "failed"]
            /\ last' = [op |-> "SubscribeBlocks", err |-> TRUE]
       ELSE /\ run' = [run EXCEPT !.pc = "recv", !.next = run.start]
            /\ last' = [op |-> "SubscribeBlocks", err |-> FALSE]
    /\ UNCHANGED <<table, progress, tx, others>>

\* deliver.Recv() fails or yields a status: SubscribeBlocks returns an error,
\* or nil for a SUCCESS status; on nil Run resets the backoff and loops
StreamEnds(err) ==
    /\ run.pc = "recv"
    /\ run' = IF err THEN [run EXCEPT !.pc = "failed"]
              ELSE [run EXCEPT !.pc = "loop", !.backoff = InitialBackoff,
                               !.fails = 0]
    /\ last' = [op |-> "streamEnds", err |-> err]
    /\ UNCHANGED <<table, progress, tx, others>>

\* The handler of Run on the next block of the stream: an error when the
\* context is done; else processBlock, up to the return of MarkProcessed
\* for a block without writes and up to the first statement of BatchInsert
\* otherwise.  `fault` is a failure of the store.
ProcessBlock(fault) ==
    /\ run.pc = "recv"
    /\ run.next \in 1..Len(chain)
    /\ LET b      == chain[run.next]
           parsed == parseBlock(b)
       IN  IF run.cancelled
           THEN /\ run' = [run EXCEPT !.pc = "failed"]
                /\ last' = [op |-> "stopped", block |-> b.Number]
                /\ UNCHANGED <<table, progress, tx>>
           ELSE IF parsed.panic
           THEN /\ run' = [run EXCEPT !.pc = "panic"]
                /\ last' = [op |-> "panic", block |-> b.Number]
                /\ UNCHANGED <<table, progress, tx>>
           ELSE IF Len(parsed.writes) = 0
           THEN /\ progress' = MarkProcessed(progress, parsed.num, fault).progress
                /\ run' = [run EXCEPT !.next = run.next + 1]
                /\ last' = [op |-> "processBlock", block |-> b.Number,
                            n |-> 0, err |-> FALSE]
                /\ UNCHANGED <<table, tx>>
           ELSE IF fault
           THEN /\ run' = [run EXCEPT !.pc = "failed"]
                /\ last' = [op |-> "processBlock", block |-> b.Number,
                            n |-> Len(parsed.writes), err |-> TRUE]
                /\ UNCHANGED <<table, progress, tx>>
           ELSE /\ tx' = Ptr(TxBegin(table, progress, parsed.writes))
                /\ run' = [run EXCEPT !.pc = "batch"]
                /\ last' = [op |-> "batch", block |-> b.Number]
                /\ UNCHANGED <<table, progress>>
    /\ UNCHANGED others

\* The next statement of the BatchInsert in progress succeeds
BatchStep ==
    /\ run.pc = "batch"
    /\ LET txn == Deref(tx)
       IN  IF txn.n < Len(txn.writes)
           THEN /\ table' = TxExec(table, txn).committed
                /\ tx' = Ptr(TxExec(table, txn).txn)
                /\ last' = [op |-> "batch", block |-> txn.writes[1].BlockNum]
                /\ UNCHANGED <<progress, run>>
           ELSE IF ~txn.marked
           THEN /\ tx' = Ptr(TxMark(txn))
                /\ last' = [op |-> "batch", block |-> txn.writes[1].BlockNum]
                /\ UNCHANGED <<table, progress, run>>
           ELSE /\ table' = TxCommit(txn).table
                /\ progress' = TxCommit(txn).progress
                /\ tx' = Nil
                /\ run' = [run EXCEPT !.pc = "recv", !.next = run.next + 1]
                /\ last' = [op |-> "processBlock", block |-> run.next,
                            n |-> Len(txn.writes), err |-> FALSE]
    /\ UNCHANGED others

\* The next statement of the BatchInsert in progress fails: the deferred
\* Rollback runs, processBlock returns the error and SubscribeBlocks ends
BatchFails ==
    /\ run.pc = "batch"
    /\ LET committed == [table |-> table, progress |-> progress]
           undone    == Rollback(committed, [table |-> Deref(tx).table,
                                             progress |-> Deref(tx).progress])
       IN  /\ table' = undone.table
           /\ progress' = undone.progress
    /\ tx' = Nil
    /\ run' = [run EXCEPT !.pc = "failed"]
    /\ last' = [op |-> "processBlock", block |-> run.next,
                n |-> Len(Deref(tx).writes), err |-> TRUE]
    /\ UNCHANGED others

\* One more failure, counted up to MaxFails
Failed(fails) == IF fails < MaxFails THEN fails + 1 ELSE MaxFails

\* The cap applied to the backoff of before the doubling
NextBackoffLateCap(backoff) ==
    IF backoff > MaxBackoff THEN MaxBackoff ELSE backoff * 2

\* backoff *= 2, capped at 30 seconds
NextBackoff(backoff) ==
    IF backoff * 2 > MaxBackoff THEN MaxBackoff ELSE backoff * 2

\* Run that gives up, and returns the error, once the backoff is at its cap
BackoffGivingUp ==
    /\ run.pc = "failed"
    /\ IF run.cancelled
       THEN /\ run' = [run EXCEPT !.pc = "returned", !.ret = NIL]
            /\ last' = [op |-> "return"]
       ELSE IF run.backoff >= MaxBackoff
       THEN /\ run' = [run EXCEPT !.pc = "returned", !.ret = "deliver error"]
            /\ last' = [op |-> "return"]
       ELSE /\ run' = [run EXCEPT !.pc = "sleep", !.fails = Failed(run.fails)]
            /\ last' = [op |-> "sleep", d |-> run.backoff,
                        k |-> Failed(run.fails)]
    /\ UNCHANGED <<table, progress, tx, others>>

\* SubscribeBlocks has returned an error: return nil when the context is
\* done; else log and time.Sleep(backoff)
Backoff ==
    /\ run.pc = "failed"
    /\ IF run.cancelled
       THEN /\ run' = [run EXCEPT !.pc = "returned", !.ret = NIL]
            /\ last' = [op |-> "return"]
       ELSE /\ run' = [run EXCEPT !.pc = "sleep", !.fails = Failed(run.fails)]
            /\ last' = [op |-> "sleep", d |-> run.backoff,
                        k |-> Failed(run.fails)]
    /\ UNCHANGED <<table, progress, tx, others>>

\* The sleep is over: the backoff doubles and the loop comes round again
WakeUp ==
    /\ run.pc = "sleep"
    /\ run' = [run EXCEPT !.pc = "loop", !.backoff = NextBackoff(run.backoff)]
    /\ last' = [op |-> "wake"]
    /\ UNCHANGED <<table, progress, tx, others>>

\* Committer.Stop(): c.cancel()
Stop ==
    /\ run' = [run EXCEPT !.cancelled = TRUE]
    /\ last' = [op |-> "Stop"]
    /\ UNCHANGED <<table, progress, tx, others>>

\* In the pipeline specification a subscription fails only while the
\* backoff is the initial one: failures do not follow one another
MayFail == run.backoff = InitialBackoff

NextPipeline ==
    \/ \E fault \in BOOLEAN : RunStart(fault)
    \/ \E fault \in {FALSE, MayFail} : Subscribe(fault)
    \/ \E err \in {FALSE, MayFail} : StreamEnds(err)
    \/ \E fault \in {FALSE, MayFail} : ProcessBlock(fault)
    \/ BatchStep
    \/ MayFail /\ BatchFails
    \/ Backoff
    \/ WakeUp
    \/ CallNewSimulationStore("ns1", 0, FALSE, FALSE)
    \/ CallGetState("k1", FALSE)
    \/ CallLastProcessedBlock(FALSE)
    \/ CallGetHistory("ns1", "k1", FALSE)

SpecPipeline == InitPipeline /\ [][NextPipeline]_vars

----------------------------------------------------------------------------
(* Committer.Run with Committer.Stop called at any moment, any number of   *)
(* times, and with failures of the subscription, of the stream and of the  *)
(* store following one another without limit.                              *)

NextRun ==
    \/ \E fault \in BOOLEAN : RunStart(fault)
    \/ \E fault \in BOOLEAN : Subscribe(fault)
    \/ \E err \in BOOLEAN : StreamEnds(err)
    \/ \E fault \in BOOLEAN : ProcessBlock(fault)
    \/ BatchStep
    \/ BatchFails
    \/ Backoff
    \/ WakeUp
    \/ Stop

SpecRun == InitPipeline /\ [][NextRun]_vars

\* The steps the goroutine of Run takes on its own: a subscription is
\* attempted, a block the peer holds is delivered and handled, a batch
\* insert runs to its end, a sleep ends.  The peer ending the stream and the
\* caller stopping the committer are not among them.
FairRun ==
    /\ WF_vars(\E fault \in BOOLEAN : Subscribe(fault))
    /\ WF_vars(\E fault \in BOOLEAN : ProcessBlock(fault))
    /\ WF_vars(BatchStep \/ BatchFails)
    /\ WF_vars(Backoff)
    /\ WF_vars(WakeUp)

LiveRun == SpecRun /\ FairRun

----------------------------------------------------------------------------
(* Committer.Run on a store that an earlier run has filled with the first  *)
(* blocks of the ledger.                                                   *)

InitResume ==
    /\ chain \in Chains
    /\ \E k \in 0..Len(chain) :
          /\ \A n \in 1..k : ~parseBlock(chain[n]).panic
          /\ table = DeliverOnce(chain, k).table
          /\ progress = DeliverOnce(chain, k).progress
    /\ sess = Nil
    /\ last = [op |-> "init"]
    /\ sess2 = Nil
    /\ run = NewCommitter
    /\ tx = Nil
    /\ wait = NotWaiting

SpecResume == InitResume /\ [][NextRun]_vars

----------------------------------------------------------------------------
(* Committer.BlockHeight and Committer.PeerBlockHeight.  Block 0 of the    *)
(* ledger is the genesis block: a ledger whose last block is n has height  *)
(* n + 1.                                                                  *)

\* BlockHeight that returns the last processed block
BlockHeightIsLast(prog, fault) ==
    LET lpb == LastProcessedBlock(prog, fault)
    IN  IF lpb.err THEN [height |-> 0, err |-> TRUE]
        ELSE [height |-> lpb.block, err |-> FALSE]

\* Committer.BlockHeight(): lpb + 1
BlockHeight(prog, fault) ==
    LET lpb == LastProcessedBlock(prog, fault)
    IN  IF lpb.err THEN [height |-> 0, err |-> TRUE]
        ELSE [height |-> lpb.block + 1, err |-> FALSE]

\* Committer.PeerBlockHeight(): info.Height of the peer's GetChainInfo
PeerBlockHeight(c, fault) ==
    IF fault THEN [height |-> 0, err |-> TRUE]
    ELSE [height |-> Len(c) + 1, err |-> FALSE]

----------------------------------------------------------------------------
(* Committer.WaitUntilSynced(ctx) while the pipeline marks blocks as       *)
(* processed.  The context is done once its deadline has elapsed; a select *)
(* with the context done and the ticker ready takes either case.           *)

\* The ledgers of up to MaxBlock blocks without transactions
EmptyChains ==
    { [n \in 1..len |-> Block(n, <<>>, Ptr(<<>>))] : len \in 0..MaxBlock }

InitWait ==
    /\ table = {}
    /\ progress = {}
    /\ sess = Nil
    /\ last = [op |-> "init"]
    /\ sess2 = Nil
    /\ chain \in EmptyChains
    /\ run = NewCommitter
    /\ tx = Nil
    /\ wait = NotWaiting

\* The call is in progress
Waiting == wait.pc \in {"select", "sleep"}

\* WaitUntilSynced is called: ticker, backoff := time.Second
CallWaitUntilSynced ==
    /\ wait.pc = "idle"
    /\ wait' = [wait EXCEPT !.pc = "select", !.backoff = InitialBackoff]
    /\ last' = [op |-> "WaitUntilSynced"]
    /\ UNCHANGED <<table, progress, sess, sess2, chain, run, tx>>

\* The deadline of ctx elapses
Deadline ==
    /\ ~wait.expired
    /\ wait.pc # "returned"
    /\ wait' = [wait EXCEPT !.expired = TRUE]
    /\ last' = [op |-> "deadline"]
    /\ UNCHANGED <<table, progress, sess, sess2, chain, run, tx>>

\* A select without the case of the context: the wait goes on
WaitTimeoutIgnored ==
    /\ wait.pc = "select"
    /\ wait.expired
    /\ last' = [op |-> "timeout"]
    /\ UNCHANGED <<table, progress, sess, sess2, chain, run, tx, wait>>

\* case <-ctx.Done(): return fmt.Errorf("time out waiting for sync")
WaitTimeout ==
    /\ wait.pc = "select"
    /\ wait.expired
    /\ wait' = [wait EXCEPT !.pc = "returned", !.ret = "time out"]
    /\ last' = [op |-> "timeout"]
    /\ UNCHANGED <<table, progress, sess, sess2, chain, run, tx>>

\* case <-ticker.C: one poll of the two heights
Poll(peerFault, localFault) ==
    /\ wait.pc = "select"
    /\ LET peer  == PeerBlockHeight(chain, peerFault)
           local == BlockHeight(progress, localFault)
           twice == wait.backoff * 2
       IN  /\ wait' =
                 IF peer.err
                 THEN IF twice >= GiveUpBackoff
                      THEN [wait EXCEPT !.pc = "returned", !.backoff = twice,
                                        !.ret = "peer height error"]
                      ELSE [wait EXCEPT !.pc = "sleep", !.backoff = twice]
                 ELSE IF local.err
                 THEN [wait EXCEPT !.pc = "returned", !.backoff = InitialBackoff,
                                   !.ret = "local height error"]
                 ELSE IF local.height >= peer.height
                 THEN [wait EXCEPT !.pc = "returned", !.backoff = InitialBackoff,
                                   !.ret = NIL]
                 ELSE [wait EXCEPT !.backoff = InitialBackoff]
           /\ last' = [op |-> "poll", peerErr |-> peer.err,
                       localErr |-> ~peer.err /\ local.err,
                       local |-> local.height, peer |-> peer.height]
    /\ UNCHANGED <<table, progress, sess, sess2, chain, run, tx>>

\* time.Sleep(backoff) is over: continue
WaitWakeUp ==
    /\ wait.pc = "sleep"
    /\ wait' = [wait EXCEPT !.pc = "select"]
    /\ last' = [op |-> "wake"]
    /\ UNCHANGED <<table, progress, sess, sess2, chain, run, tx>>

\* The pipeline has processed block b of the ledger
Processed(b) ==
    /\ progress' = MarkProcessed(progress, b, FALSE).progress
    /\ last' = [op |-> "MarkProcessed", err |-> FALSE, blockNum |-> b]
    /\ UNCHANGED <<table, sess, sess2, chain, run, tx, wait>>

NextWait ==
    \/ CallWaitUntilSynced
    \/ Deadline
    \/ WaitTimeout
    \/ \E peerFault \in BOOLEAN, localFault \in BOOLEAN : Poll(peerFault, localFault)
    \/ WaitWakeUp
    \/ \E b \in 1..Len(chain) : Processed(b)

SpecWait == InitWait /\ [][NextWait]_vars

\* A sleep ends; a select that is reached again and again with the context
\* done takes that case in the end
FairWait ==
    /\ WF_vars(WaitWakeUp)
    /\ SF_vars(WaitTimeout)

LiveWait == SpecWait /\ FairWait

----------------------------------------------------------------------------
(* The pipeline when nothing fails: the peer delivers every block of the   *)
(* ledger in ascending order, and may end the stream after the last one.   *)

\* Blocks as a peer builds them: a filter entry for every transaction
IsWellFormed(b) == b.Filter # Nil /\ Len(Deref(b.Filter)) = Len(b.Data)

WellFormedChains == { c \in Chains : \A n \in DOMAIN c : IsWellFormed(c[n]) }

InitIngest ==
    /\ table = {}
    /\ progress = {}
    /\ sess = Nil
    /\ last = [op |-> "init"]
    /\ sess2 = Nil
    /\ chain \in WellFormedChains
    /\ run = NewCommitter
    /\ tx = Nil
    /\ wait = NotWaiting

NextIngest ==
    \/ RunStart(FALSE)
    \/ Subscribe(FALSE)
    \/ ProcessBlock(FALSE)
    \/ BatchStep
    \/ run.next > Len(chain) /\ StreamEnds(FALSE)
    \/ CallLastProcessedBlock(FALSE)

SpecIngest == InitIngest /\ [][NextIngest]_vars

\* Run is called; its goroutine keeps taking its steps
FairIngest ==
    /\ WF_vars(RunStart(FALSE))
    /\ WF_vars(Subscribe(FALSE))
    /\ WF_vars(ProcessBlock(FALSE))
    /\ WF_vars(BatchStep)

LiveIngest == SpecIngest /\ FairIngest

----------------------------------------------------------------------------
(* The pipeline over a ledger of three blocks: block 1 without writes,     *)
(* block 2 with a put of k1, block 3 with a put of k1 and a delete of k2,  *)
(* and a session at version 2.  Nothing fails.                             *)

ScenarioChain ==
    << Block(1, <<>>, Ptr(<<>>)),
       Block(2, <<Envelope(TRUE, <<[Key |-> "k1", Value |-> "v1",
                                    IsDelete |-> FALSE]>>)>>,
             Ptr(<<"VALID">>)),
       Block(3, <<Envelope(TRUE, <<[Key |-> "k1", Value |-> "v2",
                                    IsDelete |-> FALSE]>>),
                  Envelope(TRUE, <<[Key |-> "k2", Value |-> NIL,
                                    IsDelete |-> TRUE]>>)>>,
             Ptr(<<"VALID", "VALID">>)) >>

InitScenario ==
    /\ table = {}
    /\ progress = {}
    /\ sess = Nil
    /\ last = [op |-> "init"]
    /\ sess2 = Nil
    /\ chain = ScenarioChain
    /\ run = NewCommitter
    /\ tx = Nil
    /\ wait = NotWaiting

NextScenario ==
    \/ RunStart(FALSE)
    \/ Subscribe(FALSE)
    \/ ProcessBlock(FALSE)
    \/ BatchStep
    \/ StreamEnds(FALSE)
    \/ CallGetHistory("ns1", "k1", FALSE)
    \/ CallGetCurrent("ns1", "k2", FALSE)
    \/ CallNewSimulationStore("ns1", 2, FALSE, FALSE)
    \/ CallGetState("k1", FALSE)

SpecScenario == InitScenario /\ [][NextScenario]_vars

----------------------------------------------------------------------------
(* Properties of the store *)

\* C1: Get(namespace, key, versionCeiling) returns the stored record of that
\* namespace and key with the greatest (blockNum, txNum), in lexicographic
\* order, among those with blockNum <= versionCeiling, and returns nil with
\* no error when there is none.
C1_GetLatestUpToCeiling ==
    (last.op = "Get" /\ ~last.fault) =>
        LET cand == { r \in table : /\ r.Namespace = last.ns
                                    /\ r.Key = last.key
                                    /\ r.BlockNum <= last.lastBlock }
        IN  /\ ~last.err
            /\ (cand = {}) = (last.rec = Nil)
            /\ cand # {} =>
                 /\ Deref(last.rec) \in cand
                 /\ \A r \in cand :
                      \/ r.BlockNum < Deref(last.rec).BlockNum
                      \/ /\ r.BlockNum = Deref(last.rec).BlockNum
                         /\ r.TxNum <= Deref(last.rec).TxNum

\* Get has chosen between two writes of the key in one block
C1_Witness ==
    /\ last.op = "Get" /\ ~last.fault /\ last.rec # Nil
    /\ \E r \in table : /\ r.Namespace = last.ns /\ r.Key = last.key
                        /\ r.BlockNum = Deref(last.rec).BlockNum
                        /\ r.TxNum < Deref(last.rec).TxNum

\* C2: LastProcessedBlock() never decreases, whatever the order of the
\* block numbers MarkProcessed and BatchInsert are called with.
C2_ProgressNeverDecreases ==
    [][LastProcessedBlock(progress', FALSE).block
         >= LastProcessedBlock(progress, FALSE).block]_vars

\* A smaller block number has been marked after a larger one
C2_Witness ==
    /\ last.op = "MarkProcessed" /\ ~last.err
    /\ last.blockNum < LastProcessedBlock(progress, FALSE).block

\* C3: BatchInsert is all-or-nothing: a call that fails leaves the stored
\* records and the progress as they were; a call that succeeds leaves every
\* record of the batch stored, adds nothing else, changes no stored record,
\* and has applied the progress update.
C3_BatchInsertAllOrNothing ==
    [][last'.op = "BatchInsert" =>
         IF last'.err
         THEN table' = table /\ progress' = progress
         ELSE /\ table \subseteq table'
              /\ PrimaryKeys(table') = PrimaryKeys(table) \cup last'.keys
              /\ Cardinality(table') = Cardinality(PrimaryKeys(table'))
              /\ last'.n > 0 =>
                   /\ progress' # {}
                   /\ LastBlockOf(progress') >= last'.first
                   /\ LastBlockOf(progress') >= LastBlockOf(progress)]_vars

\* A batch of two records has failed on a store that holds records
C3_Witness ==
    last.op = "BatchInsert" /\ last.err /\ last.n = 2 /\ table # {}

\* C4: BatchInsert is idempotent: from any store state and for any batch,
\* inserting the batch a second time succeeds and leaves the stored records
\* and the progress as the first insert left them.
C4_BatchInsertIdempotent ==
    \A writes \in Batches :
        LET once  == BatchInsert(table, progress, writes, NoFault)
            twice == BatchInsert(once.table, once.progress, writes, NoFault)
        IN  ~once.err =>
              /\ ~twice.err
              /\ twice.table = once.table
              /\ twice.progress = once.progress

\* A batch that writes one primary key twice has been inserted
C4_Witness ==
    /\ last.op = "BatchInsert" /\ ~last.err
    /\ last.n = 2 /\ Cardinality(last.keys) = 1

\* C5 as stated: after a successful BatchInsert of a non-empty batch,
\* LastProcessedBlock() is at least the block number of every record of the
\* batch, whatever the order of the records.
C5_ProgressCoversEveryRecord ==
    (last.op = "BatchInsert" /\ ~last.err /\ last.n > 0) =>
        \A b \in last.blocks : LastProcessedBlock(progress, FALSE).block >= b

\* C5 as amended: after a successful BatchInsert of a non-empty batch,
\* LastProcessedBlock() is at least the block number of the first record of
\* the batch, and so of every record when the batch carries one block number.
C5_ProgressCoversFirstRecord ==
    (last.op = "BatchInsert" /\ ~last.err /\ last.n > 0) =>
        /\ LastProcessedBlock(progress, FALSE).block >= last.first
        /\ Cardinality(last.blocks) = 1 =>
             \A b \in last.blocks : LastProcessedBlock(progress, FALSE).block >= b

\* A batch of two records of one block has been inserted
C5_Witness ==
    /\ last.op = "BatchInsert" /\ ~last.err /\ last.n = 2
    /\ last.blocks = {MaxBlock}
    /\ progress = {MaxBlock}

----------------------------------------------------------------------------
(* Properties of GetState *)

\* The stored records GetState(last.key) may see: those of the session's
\* namespace and the key, at or before the session's snapshot version
Visible ==
    { r \in table : /\ r.Namespace = Deref(sess).namespace
                    /\ r.Key = last.key
                    /\ r.BlockNum <= Deref(sess).blockNum }

\* The latest of them is a delete
LatestIsDelete ==
    \E r \in Visible : r.IsDelete /\ \A o \in Visible : ~VersionLess(r, o)

\* C6: GetState(key) on a session whose snapshot lookup finds a live record
\* returns that record's value with no error, and records a KVRead for the
\* key whose version is the record's (blockNum, txNum).
C6_LiveRecordValueAndRead ==
    (/\ last.op = "GetState" /\ last.queried
     /\ last.rec # Nil /\ ~Deref(last.rec).IsDelete) =>
        /\ ~last.err
        /\ last.val = Deref(last.rec).Value
        /\ Has(Deref(sess).reads, last.key)
        /\ Deref(sess).reads[last.key] =
             KVRead(last.key, Ptr(Version(Deref(last.rec).BlockNum,
                                          Deref(last.rec).TxNum)))

\* C7 as stated: GetState(key) on a key with no record at or before the
\* snapshot version returns (nil, no error) and adds a KVRead for the key
\* with an absent version.
C7_AbsentKeyReadRecorded ==
    (last.op = "GetState" /\ ~last.fault /\ Visible = {}) =>
        /\ last.val = NIL /\ ~last.err
        /\ Has(Deref(sess).reads, last.key)
        /\ Deref(sess).reads[last.key] = KVRead(last.key, Nil)

\* C7 as amended: the same, for a GetState that is not answered from a
\* pending write of the session (read-your-own-writes disabled, or no
\* pending write for the key).
C7_AbsentKeyReadRecordedFromStore ==
    (/\ last.op = "GetState" /\ ~last.fault /\ Visible = {}
     /\ ~(Deref(sess).readOwnWrites /\ Has(Deref(sess).writes, last.key))) =>
        /\ last.val = NIL /\ ~last.err
        /\ Has(Deref(sess).reads, last.key)
        /\ Deref(sess).reads[last.key] = KVRead(last.key, Nil)
        /\ \A k \in DOMAIN Deref(sess).reads \ {last.key} :
               Has(last.reads, k) /\ Deref(sess).reads[k] = last.reads[k]

\* A key the store holds only beyond the snapshot version has been read
C7_Witness ==
    /\ last.op = "GetState" /\ ~last.fault /\ Visible = {}
    /\ ~(Deref(sess).readOwnWrites /\ Has(Deref(sess).writes, last.key))
    /\ \E r \in table : r.Namespace = Deref(sess).namespace /\ r.Key = last.key

\* C8 as stated: GetState(key) on a key whose latest record at or before the
\* snapshot version is a delete returns (nil, no error) and leaves the
\* session's read set as it was.
C8_DeletedKeyNoRead ==
    (last.op = "GetState" /\ ~last.fault /\ LatestIsDelete) =>
        /\ last.val = NIL /\ ~last.err
        /\ Deref(sess).reads = last.reads

\* C8 as amended: the same, for a GetState that is not answered from a
\* pending write of the session.
C8_DeletedKeyNoReadFromStore ==
    (/\ last.op = "GetState" /\ ~last.fault /\ LatestIsDelete
     /\ ~(Deref(sess).readOwnWrites /\ Has(Deref(sess).writes, last.key))) =>
        /\ last.val = NIL /\ ~last.err
        /\ Deref(sess).reads = last.reads

\* A key deleted after an earlier put, both within the snapshot, has been read
C8_Witness ==
    /\ last.op = "GetState" /\ ~last.fault /\ LatestIsDelete
    /\ ~(Deref(sess).readOwnWrites /\ Has(Deref(sess).writes, last.key))
    /\ \E r \in Visible : ~r.IsDelete

\* C9: with read-your-own-writes enabled, GetState(key) on a key with a
\* pending write returns the pending put's value, or nil when the pending
\* write is a delete, does not query the store, and leaves the read set
\* unchanged.
C9_ReadOwnWrite ==
    (/\ last.op = "GetState"
     /\ Deref(sess).readOwnWrites /\ Has(Deref(sess).writes, last.key)) =>
        /\ ~last.err
        /\ last.val = IF Deref(sess).writes[last.key].IsDelete THEN NIL
                      ELSE Deref(sess).writes[last.key].Value
        /\ ~last.queried
        /\ Deref(sess).reads = last.reads

\* A pending put has been read back while the store holds a live record of
\* the key within the snapshot
C9_Witness ==
    /\ last.op = "GetState"
    /\ Deref(sess).readOwnWrites /\ Has(Deref(sess).writes, last.key)
    /\ ~Deref(sess).writes[last.key].IsDelete
    /\ Visible # {} /\ ~LatestIsDelete

\* C10: with read-your-own-writes disabled, what GetState(key) returns and
\* the read it records are those of the same call on the same snapshot in a
\* session without pending writes.
C10_PendingWritesInvisible ==
    (last.op = "GetState" /\ ~Deref(sess).readOwnWrites) =>
        LET clean == GetState([Deref(sess) EXCEPT !.reads = last.reads,
                                                  !.writes = EmptyMap],
                              table, last.key, last.fault)
        IN  /\ last.val = clean.val
            /\ last.err = clean.err
            /\ Deref(sess).reads = clean.reads

\* A key with a pending put has been read with read-your-own-writes disabled
C10_Witness ==
    /\ last.op = "GetState" /\ ~Deref(sess).readOwnWrites
    /\ Has(Deref(sess).writes, last.key)
    /\ ~Deref(sess).writes[last.key].IsDelete
    /\ last.queried

----------------------------------------------------------------------------
(* Properties of the write set and of Result *)

\* C11: a successful PutState or DelState leaves for its key exactly the
\* entry of that call, whatever entry the key had: a put yields
\* {value, isDelete:false}, a delete yields {isDelete:true}; the entries of
\* the other keys stay, so that after any sequence of calls on a key its
\* entry is that of the last call.
C11_LastWriteWins ==
    [][(last'.op \in {"PutState", "DelState"} /\ ~last'.err) =>
         LET before == Deref(sess).writes
             after  == Deref(sess').writes
         IN  /\ DOMAIN after = DOMAIN before \cup {last'.key}
             /\ \A k \in DOMAIN before \ {last'.key} : after[k] = before[k]
             /\ after[last'.key].Key = last'.key
             /\ IF last'.op = "PutState"
                THEN /\ ~after[last'.key].IsDelete
                     /\ after[last'.key].Value = last'.value
                ELSE after[last'.key].IsDelete]_vars

\* A key has been deleted after a put, or put after a delete or another put
C11_Witness ==
    /\ last.op \in {"PutState", "DelState"} /\ ~last.err
    /\ last.prev # Nil
    /\ Deref(last.prev) # Deref(sess).writes[last.key]
    /\ Cardinality(DOMAIN Deref(sess).writes) = 2

\* C12: PutState fails when the key is empty or when the value is nil or
\* empty, and then leaves the write set and the read set as they were.
C12_PutStateRejectsEmpty ==
    [][(last'.op = "PutState" /\ (IsEmpty(last'.key) \/ IsEmpty(last'.value))) =>
         /\ last'.err
         /\ Deref(sess').writes = Deref(sess).writes
         /\ Deref(sess').reads = Deref(sess).reads]_vars

\* A put of a nil value has failed on a key that has a pending write, in a
\* session that has recorded a read
C12_Witness ==
    /\ last.op = "PutState" /\ last.err
    /\ ~IsEmpty(last.key) /\ last.value = NIL
    /\ last.prev # Nil
    /\ DOMAIN Deref(sess).reads # {}

\* C13: DelState succeeds for every key, the empty key included, and leaves
\* for the key the entry {key, isDelete:true}.
C13_DelStateNeverFails ==
    last.op = "DelState" =>
        /\ ~last.err
        /\ Has(Deref(sess).writes, last.key)
        /\ Deref(sess).writes[last.key].Key = last.key
        /\ Deref(sess).writes[last.key].IsDelete

\* The empty key has been deleted
C13_Witness ==
    last.op = "DelState" /\ last.key = "" /\ ~last.err

\* C14: Result() returns every recorded read and every recorded write, and
\* no key appears twice among the reads or twice among the writes.
C14_ResultComplete ==
    last.op = "Result" =>
        LET R == last.rws.Reads
            W == last.rws.Writes
            s == Deref(sess)
        IN  /\ { R[i] : i \in DOMAIN R } = { s.reads[k] : k \in DOMAIN s.reads }
            /\ { W[i] : i \in DOMAIN W } = { s.writes[k] : k \in DOMAIN s.writes }
            /\ \A i, j \in DOMAIN R : i # j => R[i].Key # R[j].Key
            /\ \A i, j \in DOMAIN W : i # j => W[i].Key # W[j].Key
            /\ \A k \in DOMAIN s.reads : s.reads[k].Key = k
            /\ \A k \in DOMAIN s.writes : s.writes[k].Key = k

\* Result has returned two reads and two writes
C14_Witness ==
    /\ last.op = "Result"
    /\ Len(last.rws.Reads) = 2 /\ Len(last.rws.Writes) = 2

----------------------------------------------------------------------------
(* Properties of the snapshot of a session *)

\* C15: the snapshot version of a session is fixed at construction: the
\* explicit block number when that is not zero, LastProcessedBlock() as it
\* is at construction when zero is passed; no later step changes it, and
\* Version() returns it, however far LastProcessedBlock() has advanced.
C15_SnapshotVersionFixed ==
    [][/\ (last'.op = "NewSimulationStore" /\ ~last'.err) =>
            /\ sess' # Nil
            /\ Deref(sess').blockNum =
                  IF last'.blockNum # 0 THEN last'.blockNum
                  ELSE LastProcessedBlock(progress, FALSE).block
       /\ (sess # Nil /\ sess' # Nil) =>
            Deref(sess').blockNum = Deref(sess).blockNum
       /\ last'.op = "Version" => last'.block = Deref(sess).blockNum]_vars

\* Version() has returned the block a session resolved at construction,
\* after LastProcessedBlock() has advanced beyond it
C15_Witness ==
    /\ last.op = "Version"
    /\ 0 < last.block /\ last.block < MaxBlock
    /\ LastProcessedBlock(progress, FALSE).block > last.block

\* C16: GetState in a session bound to version v never observes a write of
\* a block beyond v: the record the lookup resolves to, and the version the
\* call records, have blockNum <= v, also when the store holds records of
\* the key from later blocks.
C16_NoWriteBeyondSnapshot ==
    last.op = "GetState" =>
        /\ last.rec # Nil => Deref(last.rec).BlockNum <= Deref(sess).blockNum
        /\ (last.queried /\ Has(Deref(sess).reads, last.key)
              /\ Deref(sess).reads[last.key].Version # Nil) =>
             Deref(Deref(sess).reads[last.key].Version).BlockNum
                 <= Deref(sess).blockNum

\* A read has resolved to a record within the snapshot while the store
\* holds a record of the key from a later block
C16_Witness ==
    /\ last.op = "GetState" /\ last.rec # Nil
    /\ Has(Deref(sess).reads, last.key)
    /\ \E r \in table : /\ r.Namespace = Deref(sess).namespace
                        /\ r.Key = last.key
                        /\ r.BlockNum > Deref(sess).blockNum

\* C17: the snapshot of a session constructed with version zero is stable
\* while the pipeline ingests blocks: no step changes the record a store
\* lookup of the session resolves to, for any key, so that any two lookups
\* of a key resolve to the same record however many blocks are ingested
\* between them.
C17_SnapshotStable ==
    [][(sess # Nil /\ sess' # Nil) =>
         \A key \in SessionKeys :
             Get(table', Deref(sess').namespace, key, Deref(sess').blockNum, FALSE)
           = Get(table, Deref(sess).namespace, key, Deref(sess).blockNum, FALSE)]_vars

\* A lookup has resolved to a record of the snapshot after the pipeline has
\* ingested a later block that writes the key
C17_Witness ==
    /\ last.op = "GetState" /\ last.rec # Nil
    /\ LastProcessedBlock(progress, FALSE).block > Deref(sess).blockNum
    /\ \E r \in table : /\ r.Namespace = Deref(sess).namespace
                        /\ r.Key = last.key
                        /\ r.BlockNum > Deref(sess).blockNum

----------------------------------------------------------------------------
(* Properties of the ingestion pipeline *)

\* C18: no partially applied block is visible: in every state a reader may
\* read, between any two steps of the pipeline, the store holds all the
\* records BatchInsert stores for a block together with a progress that has
\* reached the block, or none of them.
C18_NoPartialBlock ==
    \A n \in 1..Len(chain) :
        LET keys == KeysOf(parseBlock(chain[n]).writes)
        IN  \/ keys \cap PrimaryKeys(table) = {}
            \/ /\ keys \subseteq PrimaryKeys(table)
               /\ LastProcessedBlock(progress, FALSE).block >= n

\* A reader has read the store while a transaction had inserted one of the
\* two records of its batch
C18_Witness ==
    /\ last.op \in {"GetHistory", "LastProcessedBlock", "NewSimulationStore",
                    "GetState"}
    /\ tx # Nil
    /\ Len(Deref(tx).writes) = 2 /\ Deref(tx).n = 1
    /\ Deref(tx).table # table

\* C19: the store holds writes of validated transactions only: every stored
\* record is a write of a transaction of its block that has an entry in the
\* block's validity filter, and that entry is VALID.
C19_OnlyValidatedWrites ==
    \A r \in table :
        /\ r.BlockNum \in 1..Len(chain)
        /\ LET b == chain[r.BlockNum]
           IN  /\ b.Filter # Nil
               /\ r.TxNum + 1 \in 1..Len(b.Data)
               /\ r.TxNum + 1 \in 1..Len(Deref(b.Filter))
               /\ Deref(b.Filter)[r.TxNum + 1] = "VALID"

\* The store holds the write of the valid transaction of a block whose
\* other transaction, not valid, carries a write too
C19_Witness ==
    \E r \in table :
        LET b == chain[r.BlockNum]
        IN  \E i \in 1..Len(b.Data) :
                /\ Deref(b.Filter)[i] # "VALID"
                /\ b.Data[i].Writes # <<>>

\* C20: when the pipeline has processed a delivered block b from which no
\* writes were extracted, LastProcessedBlock() >= b, and the step has added
\* or changed no stored record.
C20_EmptyBlockAdvancesProgress ==
    [][(last'.op = "processBlock" /\ last'.n = 0) =>
         /\ LastProcessedBlock(progress', FALSE).block >= last'.block
         /\ table' = table]_vars

----------------------------------------------------------------------------
(* Properties of the history of a key *)

\* C27: GetHistory(namespace, key) returns every stored record of that
\* namespace and key and no other, each once, in strictly ascending
\* (blockNum, txNum) order, so that two writes of one block appear in the
\* order of their transaction index.
C27_HistoryCompleteAscending ==
    (last.op = "GetHistory" /\ ~last.fault) =>
        LET recs == last.recs
            rows == { r \in table : r.Namespace = last.ns /\ r.Key = last.key }
        IN  /\ ~last.err
            /\ { recs[i] : i \in DOMAIN recs } = rows
            /\ Len(recs) = Cardinality(rows)
            /\ \A i, j \in DOMAIN recs :
                   i < j => \/ recs[i].BlockNum < recs[j].BlockNum
                            \/ /\ recs[i].BlockNum = recs[j].BlockNum
                               /\ recs[i].TxNum < recs[j].TxNum

\* The history of a key written twice in one block has been read
C27_Witness ==
    /\ last.op = "GetHistory" /\ ~last.fault
    /\ Len(last.recs) = 2
    /\ last.recs[1].BlockNum = last.recs[2].BlockNum

\* C28: the store is append-only: no InsertWrite, BatchInsert or
\* MarkProcessed changes or removes a stored record, and no two stored
\* records share a primary key, so that an insert that carries the primary
\* key of a stored row is ignored, whatever its value and delete flag, and
\* the stored row is kept.
C28_AppendOnly ==
    [][/\ \A r \in table : r \in table'
       /\ Cardinality(PrimaryKeys(table')) = Cardinality(table')
       /\ (last'.op = "InsertWrite" /\ last'.dup) => table' = table]_vars

\* An InsertWrite has carried the primary key of a stored row with another
\* payload, and has succeeded
C28_Witness ==
    last.op = "InsertWrite" /\ last.dup /\ ~last.err

----------------------------------------------------------------------------
(* Properties of ingestion *)

\* C30: ingestion persists each write exactly once.  After any deliveries,
\* failures of the subscription and re-subscriptions that deliver processed
\* blocks again, the history of every key and the value of
\* LastProcessedBlock() are those of delivering a prefix of the ledger, each
\* block a single time, in order.
C30_ExactlyOnce ==
    \E k \in 0..Len(chain) :
        /\ \A n \in 1..k : ~parseBlock(chain[n]).panic
        /\ LET once == DeliverOnce(chain, k)
           IN  /\ \A ns \in Namespaces, key \in Keys :
                      GetHistory(table, ns, key, FALSE).recs
                          = GetHistory(once.table, ns, key, FALSE).recs
               /\ LastProcessedBlock(progress, FALSE).block
                      = LastProcessedBlock(once.progress, FALSE).block

\* A block with writes has been processed again after a later block was
\* processed
C30_Witness ==
    /\ last.op = "processBlock" /\ ~last.err /\ last.n > 0
    /\ last.block < LastProcessedBlock(progress, FALSE).block
    /\ \E r \in table : r.BlockNum > last.block

----------------------------------------------------------------------------
(* Properties of sessions that share a store *)

\* What a session shows its caller: for every key what GetState returns
\* and records, and every ReadWriteSet Result may return
Observable(p, tbl) ==
    IF p = Nil THEN <<>>
    ELSE LET s == Deref(p)
         IN  [gets |-> [key \in SharedKeys |->
                           LET res == GetState(s, tbl, key, FALSE)
                           IN  <<res.val, res.err, res.reads>>],
              results |-> { Result(s, ro, wo) : ro \in RangeOrders(s.reads),
                                                wo \in RangeOrders(s.writes) }]

SessionCalls == {"GetState", "PutState", "DelState", "Result"}

\* C29: sessions only read shared state.  No GetState, PutState, DelState
\* or Result call changes the records of the store or LastProcessedBlock(),
\* and a call on one session changes neither what GetState returns on the
\* other session nor what its Result contains.
C29_SessionsIsolated ==
    [][last'.op \in SessionCalls =>
         /\ table' = table
         /\ LastProcessedBlock(progress', FALSE) = LastProcessedBlock(progress, FALSE)
         /\ IF "on" \in DOMAIN last'
            THEN Observable(sess', table') = Observable(sess, table)
            ELSE Observable(sess2', table') = Observable(sess2, table)]_vars

\* The second session has put a value for a key while the first session,
\* which reads its own writes, holds another pending write of that key and
\* a recorded read of it
C29_Witness ==
    /\ last.op = "PutState" /\ "on" \in DOMAIN last /\ ~last.err
    /\ sess # Nil /\ sess2 # Nil
    /\ Deref(sess).readOwnWrites
    /\ Has(Deref(sess).reads, last.key)
    /\ Has(Deref(sess).writes, last.key)
    /\ Deref(sess).writes[last.key] # Deref(sess2).writes[last.key]

----------------------------------------------------------------------------
(* The end-to-end scenario *)

\* C26: after block 1 without writes, block 2 writing k1 = v1 at (2,0) and
\* block 3 writing k1 = v2 at (3,0) and deleting k2 at (3,1) have been
\* ingested, GetHistory(ns1, k1) is [(2,0,v1), (3,0,v2)] in that order,
\* GetCurrent(ns1, k2) is a delete record, and GetState(k1) in a session at
\* snapshot version 2 returns v1.
C26_EndToEnd ==
    LastProcessedBlock(progress, FALSE).block = 3 =>
        /\ last.op = "GetHistory" =>
              last.recs = << WriteRecord("ns1", "k1", 2, 0, "v1", FALSE),
                             WriteRecord("ns1", "k1", 3, 0, "v2", FALSE) >>
        /\ last.op = "GetCurrent" =>
              /\ last.rec # Nil
              /\ Deref(last.rec).IsDelete
              /\ Version(Deref(last.rec).BlockNum, Deref(last.rec).TxNum)
                    = Version(3, 1)
        /\ last.op = "GetState" =>
              /\ SnapshotVersion(Deref(sess)) = 2
              /\ ~last.err
              /\ last.val = "v1"

----------------------------------------------------------------------------
(* Properties of Committer.Run *)

\* C21: Run never surfaces an error to its caller: under every interleaving
\* of cancellation with stream consumption, handler failure, subscription
\* failure and backoff sleep, the value Run returns is nil.
C21_RunReturnsNil ==
    /\ run.ret \in {"none", NIL}
    /\ run.pc = "returned" <=> run.ret = NIL

\* Run has returned after subscriptions failed until the backoff was at its
\* cap, and after blocks were stored
C21_Witness ==
    /\ run.pc = "returned"
    /\ run.backoff = MaxBackoff
    /\ table # {}


\* Run is over: it has returned, or parseBlock has panicked
RunEnded == run.pc \in {"returned", "panic"}

\* C22: after Stop() is called, once or several times, Run() eventually
\* returns in every state of the pipeline: blocked on the stream waiting for
\* a block that never arrives, processing a block, sleeping in backoff.
C22_StopEndsRun == (run.cancelled /\ run.pc # "init") ~> RunEnded


\* The committer's height is the peer's
Synced ==
    /\ ~BlockHeight(progress, FALSE).err
    /\ BlockHeight(progress, FALSE).height = PeerBlockHeight(chain, FALSE).height

\* C25: if the feed delivers every block below the ledger height in
\* ascending order and the store operations succeed, the pipeline
\* eventually reaches LastProcessedBlock()+1 equal to the ledger height,
\* whatever mix of empty blocks and blocks with writes is delivered, and
\* stays there: BlockHeight() equals the peer's height from then on.
C25_CatchesUp == <>[]Synced

\* The pipeline has caught up on a ledger that ends with a block without
\* writes and holds a block with writes
C25_Witness ==
    /\ Synced
    /\ table # {}
    /\ Len(parseBlock(chain[Len(chain)]).writes) = 0
    /\ last.op = "processBlock" /\ last.block = Len(chain)

----------------------------------------------------------------------------
(* Properties of Committer.WaitUntilSynced *)

\* The local height: LastProcessedBlock() + 1
LocalHeight == LastProcessedBlock(progress, FALSE).block + 1

\* The height of the peer's ledger
RemoteHeight == Len(chain) + 1

\* C23: WaitUntilSynced returns success only when a poll has observed
\* local height (LastProcessedBlock()+1) greater than or equal to the
\* remote ledger height, and it does return success at the first poll that
\* observes this.
C23_SuccessIffPollSynced ==
    [][/\ (wait'.ret = NIL /\ wait.ret # NIL) =>
            /\ last'.op = "poll" /\ ~last'.peerErr /\ ~last'.localErr
            /\ last'.local = LocalHeight /\ last'.peer = RemoteHeight
            /\ LocalHeight >= RemoteHeight
       /\ (last'.op = "poll" /\ ~last'.peerErr /\ ~last'.localErr
             /\ LocalHeight >= RemoteHeight) =>
            wait'.pc = "returned" /\ wait'.ret = NIL]_vars

\* Before the deadline, a poll has returned success on a ledger of several
\* blocks, after the pipeline caught up
C23_Witness ==
    /\ last.op = "poll" /\ wait.ret = NIL
    /\ ~wait.expired
    /\ last.local = last.peer /\ last.peer > 1

\* C24 as stated: if local height stays below remote height, then once the
\* deadline has elapsed the call eventually returns, and it returns the
\* timeout error.
C24_ReturnsTimeout ==
    (wait.expired /\ Waiting /\ LocalHeight < RemoteHeight)
        ~> \/ wait.pc = "returned" /\ wait.ret = "time out"
           \/ LocalHeight >= RemoteHeight

\* C24: WaitUntilSynced never hangs: once the deadline has elapsed the call
\* eventually returns; while local height is below remote height what it
\* returns is an error: the timeout error, or the error of the height query
\* that failed.
C24_ReturnsAfterDeadline ==
    (wait.expired /\ Waiting)
        ~> /\ wait.pc = "returned"
           /\ \/ wait.ret \in {"time out", "peer height error",
                                "local height error"}
              \/ wait.ret = NIL /\ LocalHeight >= RemoteHeight

\* The call has timed out with local height below remote height
C24_Witness ==
    /\ wait.pc = "returned" /\ wait.ret = "time out"
    /\ LocalHeight < RemoteHeight
    /\ wait.expired

----------------------------------------------------------------------------
(* Properties of GetState *)

\* C31: when the store lookup inside GetState fails, GetState returns that
\* error with a nil value, and the session's read set and write set are
\* unchanged.
C31_LookupFailureSurfaced ==
    [][(last'.op = "GetState" /\ last'.queried /\ last'.fault) =>
         /\ last'.err
         /\ last'.val = NIL
         /\ Deref(sess').reads = Deref(sess).reads
         /\ Deref(sess').writes = Deref(sess).writes]_vars

\* The lookup has failed for a key the session has not read, in a session
\* that holds a recorded read and a pending write
C31_Witness ==
    /\ last.op = "GetState" /\ last.queried /\ last.fault /\ last.err
    /\ ~Has(Deref(sess).reads, last.key)
    /\ Deref(sess).reads # EmptyMap
    /\ Deref(sess).writes # EmptyMap


\* The KVReads Result() may return for a key, over the orders of its loops
ResultReadsOf(s, key) ==
    LET results == { Result(s, ro, wo) : ro \in RangeOrders(s.reads),
                                         wo \in RangeOrders(s.writes) }
        readsOf(rws) == { rws.Reads[i] : i \in 1..Len(rws.Reads) }
    IN  { r \in UNION { readsOf(rws) : rws \in results } : r.Key = key }

\* C38: first access wins for reads.  When GetState is called again on a
\* key the session has read, the KVRead that Result() returns for the key
\* is the one recorded before the call, also when the lookup of the later
\* call resolves to a different record.
C38_FirstReadWins ==
    (last.op = "GetState" /\ Has(last.reads, last.key)) =>
        ResultReadsOf(Deref(sess), last.key) = {last.reads[last.key]}

----------------------------------------------------------------------------
(* Properties of the subscriptions of Run *)

C32_ResubscribesAfterProgress ==
    [][(last.op = "wake" /\ last'.op = "SubscribeBlocks" /\ ~last'.err) =>
         run'.next = LastBlockOf(progress) + 1]_vars


RECURSIVE Pow2(_)
Pow2(n) == IF n = 0 THEN 1 ELSE 2 * Pow2(n - 1)

Min(a, b) == IF a < b THEN a ELSE b

\* C34: the backoff of Run starts at 1 second, doubles after each
\* consecutive subscription failure and is capped at 30: the sleep before
\* the k-th consecutive retry is min(2^(k-1), 30), and the interval is
\* always between 1 and 30.
C34_BackoffSchedule ==
    /\ run.pc # "init" => run.backoff \in InitialBackoff..MaxBackoff
    /\ last.op = "sleep" =>
          /\ last.k >= 1
          /\ last.d = Min(Pow2(last.k - 1), MaxBackoff)

\* Run sleeps at the cap, after MaxFails failures or more in a row
C34_Witness ==
    /\ last.op = "sleep"
    /\ last.k = MaxFails
    /\ last.d = MaxBackoff


\* C35: a successful block delivery resets the backoff of Run to the
\* initial interval: when the subscription that has just failed had
\* delivered a block that was processed without error, the sleep that
\* follows lasts the initial second.
C35_DeliveryResetsBackoff ==
    [][(/\ run.pc = "failed" /\ run'.pc = "sleep"
        /\ last.op # "SubscribeBlocks"
        /\ run.next > run.start) =>
         last'.d = InitialBackoff]_vars


\* Run has just called SubscribeBlocks
Subscribing == last.op = "SubscribeBlocks" /\ run.pc \in {"recv", "failed"}

\* C36: Run returns only after cancellation has been signaled: every
\* subscription end that happens without cancellation, whether a transport
\* error, a handler or storage error (Run sleeps, then loops), or a clean
\* end of the stream (Run loops), is followed by another subscription
\* attempt and never by a return of Run.
C36_ReturnsOnlyAfterStop ==
    /\ [](run.pc = "returned" => run.cancelled)
    /\ (run.pc = "failed" /\ ~run.cancelled) ~> (run.pc = "sleep" \/ run.cancelled)
    /\ (run.pc = "sleep" /\ ~run.cancelled) ~> (run.pc = "loop" \/ run.cancelled)
    /\ (run.pc = "loop" /\ ~run.cancelled) ~> (Subscribing \/ run.cancelled)

\* Run has subscribed again, uncancelled, after a handler error on a store
\* that holds records and after several failures in a row
C36_Witness ==
    /\ last.op = "SubscribeBlocks"
    /\ ~run.cancelled
    /\ run.fails >= 2
    /\ table # {}

----------------------------------------------------------------------------
(* Properties of the retries of WaitUntilSynced *)

\* C37: a failure of the remote-height query never makes WaitUntilSynced
\* return: after any number of consecutive failures it keeps retrying, with
\* a backoff that never exceeds 30 seconds.
C37_PeerFailureRetried ==
    [][(last'.op = "poll" /\ last'.peerErr) =>
         /\ wait'.pc # "returned"
         /\ wait'.backoff <= MaxBackoff]_vars

----------------------------------------------------------------------------
(* Properties of the progress of the pipeline *)

\* The transactions of a block that are decodable and marked VALID in its
\* filter, by their index in the block (from 0)
ValidTxs(b) ==
    IF b.Filter = Nil THEN {}
    ELSE { n \in 0..(Len(b.Data) - 1) :
             /\ n < Len(Deref(b.Filter))
             /\ Deref(b.Filter)[n + 1] = "VALID"
             /\ b.Data[n + 1].decodable }

\* The records of the writes of those transactions
ValidWrites(b) ==
    UNION { { WriteRecord(b.Data[n + 1].Namespace, b.Data[n + 1].Writes[i].Key,
                          b.Number, n, b.Data[n + 1].Writes[i].Value,
                          b.Data[n + 1].Writes[i].IsDelete) :
                i \in 1..Len(b.Data[n + 1].Writes) } :
            n \in ValidTxs(b) }

\* C39: progress never runs ahead of persisted data.  In every state the
\* pipeline reaches, for every block b of the ledger with
\* b <= LastProcessedBlock(), every write of every valid, decodable
\* transaction of block b is in the store.
C39_ProgressNotAhead ==
    \A b \in 1..Len(chain) :
        b <= LastProcessedBlock(progress, FALSE).block =>
            ValidWrites(chain[b]) \subseteq table

\* A block with writes has been stored at a retry, after a failure, and
\* the progress covers it
C39_Witness ==
    /\ last.op = "processBlock" /\ ~last.err /\ last.n > 0
    /\ run.fails >= 1
    /\ last.block <= LastProcessedBlock(progress, FALSE).block
    /\ ValidWrites(chain[last.block]) # {}


\* A transaction of the block is marked VALID and cannot be decoded
HasUndecodable(b) ==
    /\ b.Filter # Nil
    /\ \E n \in 1..Len(b.Data) :
          /\ n <= Len(Deref(b.Filter))
          /\ Deref(b.Filter)[n] = "VALID"
          /\ ~b.Data[n].decodable

====
